---- MODULE Spec2Model ----
(***************************************************************************)
(* Opaque-to-typed pointer retyping for the legacy bitcode writers.        *)
(*                                                                         *)
(* The module models the IR a pass sees (globals, functions, blocks,       *)
(* instructions and their operand slots) and the passes themselves:        *)
(*   - PointerRewriter (demotePointerConstexprs, bitcastGlobals,           *)
(*     bitcastInstructionOperands, bitcastFunctionOperands,                *)
(*     buildPointerMap), specification Spec;                               *)
(*   - PointerTypeAnalysis (classifyInstructionsForwards/Backwards,        *)
(*     classifyFunctionType, classifyGlobalCtorPointerType),               *)
(*     specification SpecPTA.                                              *)
(*                                                                         *)
(* Values are referenced by identity: [k |-> kind, i |-> index].  Use      *)
(* lists are enumerated in layout order.                                   *)
(***************************************************************************)
EXTENDS Integers, Sequences, FiniteSets, TLC

VARIABLES
  insts,       \* instruction table: id -> instruction record
  blocks,      \* layout: block index -> [fn, body: sequence of instruction ids]
  globals,     \* the module's global variables, in module order
  functions,   \* the module's functions, in module order
  pc,          \* position of the running pass
  worklist,    \* the Worklist of the running phase (what is left of it)
  found,       \* whether the running phase's Worklist was non-empty
  Changed,     \* PointerRewriter::run's result so far
  results,     \* the results the phases of run have returned, in order
  PointerMap,  \* the PointerTypeMap being built / returned
  failed       \* an assertion of the running pass has fired

vars == <<insts, blocks, globals, functions, pc, worklist, found, Changed, results,
          PointerMap, failed>>

(***************************************************************************)
(* Bounds of the checked inputs.                                           *)
(***************************************************************************)
MaxBody == 2      \* instructions in the body of the defined function

(***************************************************************************)
(* Types.  A pointer's static type is opaque: it carries only its address  *)
(* space.  TypedPointerType carries the pointee.                           *)
(***************************************************************************)
Scalar(n) == [t |-> n]
Ptr(as) == [t |-> "ptr", as |-> as]
TypedPointerType(el, as) == [t |-> "tptr", el |-> el, as |-> as]
FunctionType(ret, params) == [t |-> "fn", ret |-> ret, params |-> params]
isPointerTy(ty) == ty.t = "ptr"
VoidTy == Scalar("void")
Int8Ty == Scalar("i8")

(***************************************************************************)
(* Value references.                                                       *)
(***************************************************************************)
Inst(i) == [k |-> "inst", i |-> i]
GV(i) == [k |-> "gv", i |-> i]
CE(i) == [k |-> "ce", i |-> i]
Arg(f, i) == [k |-> "arg", i |-> i, f |-> f]
Fn(i) == [k |-> "fn", i |-> i]
K(n) == [k |-> "c", i |-> 0, n |-> n]      \* a constant of scalar type n
Null(as) == [k |-> "null", i |-> as]       \* ConstantPointerNull

(***************************************************************************)
(* The module's constants: global variables, constant expressions and      *)
(* functions the checked modules are built from.                           *)
(*   @g1 = addrspace(1) global i32                                         *)
(*   @g2 = global ptr addrspace(1) @g1                                     *)
(*   ce1 = getelementptr (arr, ptr addrspace(1) @g1, 0, 1)                 *)
(*   ce2 = getelementptr (i8, ptr ce3, 4)                                  *)
(*   ce3 = addrspacecast (ptr addrspace(1) @g1 to ptr)                     *)
(*   define void @f(ptr addrspace(1) %a)                                   *)
(*   declare void @F1(ptr addrspace(1), i32), !arg_eltypes !{0, half 0}    *)
(*   declare void @G(ptr, ptr addrspace(1))                                *)
(* and, for PointerTypeAnalysis,                                           *)
(*   define ptr addrspace(1) @k(ptr addrspace(1) %x, i32),                 *)
(*                                        !arg_eltypes !{0, half 0}        *)
(*   declare ptr @d(ptr)                                                   *)
(*   declare void @c()                                                     *)
(*   @llvm.global_ctors = [1 x { i32, ptr, ptr }] [{ 65535, @c, null }]    *)
(*   @llvm.global_ctors = [1 x { i32, ptr, ptr }] [{ 65535, @c, @k }]      *)
(* (a module holds at most one of the two constructor tables).             *)
(***************************************************************************)
StructType(elts) == [t |-> "struct", elts |-> elts]
ArrayType(el, n) == [t |-> "array", el |-> el, n |-> n]
ConstantStruct(elts) == [k |-> "cs", i |-> 0, elts |-> elts]
ConstantArray(elts) == [k |-> "ca", i |-> 0, elts |-> elts]

CtorStructTy == StructType(<<Scalar("i32"), Ptr(0), Ptr(0)>>)

GlobalTable ==
  <<[name |-> "g1", valueType |-> Scalar("i32"), as |-> 1, init |-> K("i32")],
    [name |-> "g2", valueType |-> Ptr(1), as |-> 0, init |-> GV(1)],
    [name |-> "llvm.global_ctors", valueType |-> ArrayType(CtorStructTy, 1),
     as |-> 0,
     init |-> ConstantArray(<<ConstantStruct(<<K("i32"), Fn(6), Null(0)>>)>>)],
    [name |-> "llvm.global_ctors", valueType |-> ArrayType(CtorStructTy, 1),
     as |-> 0,
     init |-> ConstantArray(<<ConstantStruct(<<K("i32"), Fn(6), Fn(4)>>)>>)]>>

NoEl == Scalar("none")

MkInst(op, ty, ops, el, rel, inb, org) ==
  [op |-> op, ty |-> ty, ops |-> ops, el |-> el, rel |-> rel, inb |-> inb,
   org |-> org]

ConstExprTable ==
  <<MkInst("getelementptr", Ptr(1), <<GV(1), K("i64")>>, Scalar("arr"),
           Scalar("i32"), <<>>, "ce"),
    MkInst("getelementptr", Ptr(0), <<CE(3), K("i64")>>, Int8Ty, Int8Ty,
           <<>>, "ce"),
    MkInst("addrspacecast", Ptr(0), <<GV(1)>>, NoEl, NoEl, <<>>, "ce")>>

FunctionTable ==
  <<[params |-> <<Ptr(1)>>, ret |-> VoidTy, md |-> <<>>, as |-> 0],
    [params |-> <<Ptr(1), Scalar("i32")>>, ret |-> VoidTy,
     md |-> <<<<0, Scalar("half")>>>>, as |-> 0],
    [params |-> <<Ptr(0), Ptr(1)>>, ret |-> VoidTy, md |-> <<>>, as |-> 0],
    [params |-> <<Ptr(1), Scalar("i32")>>, ret |-> Ptr(1),
     md |-> <<<<0, Scalar("half")>>>>, as |-> 0],
    [params |-> <<Ptr(0)>>, ret |-> Ptr(0), md |-> <<>>, as |-> 0],
    [params |-> <<>>, ret |-> VoidTy, md |-> <<>>, as |-> 0]>>

getFunctionType(f) == FunctionType(FunctionTable[f].ret, FunctionTable[f].params)

(***************************************************************************)
(* Static type of a value.                                                 *)
(***************************************************************************)
RECURSIVE TypeIn(_, _)
TypeIn(I, v) ==
  CASE v.k = "inst" -> I[v.i].ty
    [] v.k = "gv" -> Ptr(GlobalTable[v.i].as)
    [] v.k = "ce" -> ConstExprTable[v.i].ty
    [] v.k = "arg" -> FunctionTable[v.f].params[v.i]
    [] v.k = "fn" -> Ptr(FunctionTable[v.i].as)
    [] v.k = "null" -> Ptr(v.i)
    [] v.k = "cs" -> StructType([n \in 1..Len(v.elts) |-> TypeIn(I, v.elts[n])])
    [] v.k = "ca" -> ArrayType(TypeIn(I, v.elts[1]), Len(v.elts))
    [] OTHER -> Scalar(v.n)

getType(v) == TypeIn(insts, v)

(***************************************************************************)
(* Sequence helpers.                                                       *)
(***************************************************************************)
RECURSIVE Concat(_)
Concat(ss) == IF ss = <<>> THEN <<>> ELSE Head(ss) \o Concat(Tail(ss))

RECURSIVE IndexOf(_, _)
IndexOf(s, x) == IF s = <<>> THEN 0
                 ELSE IF Head(s) = x THEN 1
                 ELSE LET r == IndexOf(Tail(s), x) IN IF r = 0 THEN 0 ELSE r + 1

Contains(s, x) == \E i \in 1..Len(s) : s[i] = x

InsertAt(s, p, x) == SubSeq(s, 1, p - 1) \o <<x>> \o SubSeq(s, p, Len(s))

(***************************************************************************)
(* Instruction constructors and accessors.                                 *)
(***************************************************************************)
LoadInst(ty, p) == MkInst("load", ty, <<p>>, ty, NoEl, <<>>, "orig")
StoreInst(v, p) == MkInst("store", VoidTy, <<v, p>>, NoEl, NoEl, <<>>, "orig")
AtomicRMWInst(p, v) ==
  MkInst("atomicrmw", Scalar(v.n), <<p, v>>, NoEl, NoEl, <<>>, "orig")
AtomicCmpXchgInst(p, c, n) ==
  MkInst("cmpxchg", Scalar("pair"), <<p, c, n>>, NoEl, NoEl, <<>>, "orig")
GetElementPtrInst(ty, src, res, p) ==
  MkInst("getelementptr", ty, <<p, K("i64")>>, src, res, <<>>, "orig")
AllocaInst(el, as) == MkInst("alloca", Ptr(as), <<>>, el, NoEl, <<>>, "orig")
PHINode(ty, vs, bs) == MkInst("phi", ty, vs, NoEl, NoEl, bs, "orig")
SelectInst(ty, a, b) ==
  MkInst("select", ty, <<K("i1"), a, b>>, NoEl, NoEl, <<>>, "orig")
AddrSpaceCastInst(as, p) ==
  MkInst("addrspacecast", Ptr(as), <<p>>, NoEl, NoEl, <<>>, "orig")
CallInst(ty, callee, args) ==
  MkInst("call", ty, args \o <<callee>>, NoEl, NoEl, <<>>, "orig")
BranchInst == MkInst("br", VoidTy, <<>>, NoEl, NoEl, <<>>, "orig")
ReturnInst(vs) == MkInst("ret", VoidTy, vs, NoEl, NoEl, <<>>, "orig")

\* Operand slots are numbered from 0, as in the IR.
getOperand(I, i, idx) == I[i].ops[idx + 1]
getNumOperands(I, i) == Len(I[i].ops)
setOperand(I, i, idx, v) == [I EXCEPT ![i].ops[idx + 1] = v]

getPointerOperandIndex(ins) == IF ins.op = "store" THEN 1 ELSE 0
getPointerOperand(I, i) == getOperand(I, i, getPointerOperandIndex(I[i]))
arg_size(ins) == Len(ins.ops) - 1
getCalledOperand(ins) == ins.ops[Len(ins.ops)]

\* Instruction ids in module order (functions, blocks, instructions).
Layout(B) == Concat([b \in 1..Len(B) |-> B[b].body])
getParent(B, i) == CHOOSE b \in 1..Len(B) : Contains(B[b].body, i)
getTerminator(B, b) == B[b].body[Len(B[b].body)]
insertBefore(B, new, at) ==
  LET b == getParent(B, at)
  IN [B EXCEPT ![b].body = InsertAt(@, IndexOf(@, at), new)]
insertAfter(B, new, at) ==
  LET b == getParent(B, at)
  IN [B EXCEPT ![b].body = InsertAt(@, IndexOf(@, at) + 1, new)]

\* The uses of value v by instructions: <<user id, operand number>>, in
\* layout order.
RECURSIVE UsesIn(_, _, _)
UsesIn(I, ids, v) ==
  IF ids = <<>> THEN <<>>
  ELSE LET i == Head(ids)
           here == SelectSeq([n \in 1..Len(I[i].ops) |-> <<i, n - 1>>],
                             LAMBDA u : I[i].ops[u[2] + 1] = v)
       IN here \o UsesIn(I, Tail(ids), v)
uses(I, B, v) == UsesIn(I, Layout(B), v)

(***************************************************************************)
(* PointerRewriter.                                                        *)
(***************************************************************************)
Put(m, k, v) == [x \in DOMAIN m \cup {k} |-> IF x = k THEN v ELSE m[x]]

\* Operand slots <<instruction id, operand number>> holding a ConstantExpr,
\* in module order.
RECURSIVE ConstExprSlots(_, _)
ConstExprSlots(I, ids) ==
  IF ids = <<>> THEN <<>>
  ELSE LET i == Head(ids)
       IN SelectSeq([n \in 1..Len(I[i].ops) |-> <<i, n - 1>>],
                    LAMBDA u : I[i].ops[u[2] + 1].k = "ce")
          \o ConstExprSlots(I, Tail(ids))

getAsInstruction(ce) == [ConstExprTable[ce.i] EXCEPT !.org = "dem"]

\* One Worklist item of demotePointerConstexprs.
demoteOne(I, B, i, idx) ==
  LET NewI == Len(I) + 1
      I1 == Append(I, getAsInstruction(getOperand(I, i, idx)))
  IN [insts |-> setOperand(I1, i, idx, Inst(NewI)),
      blocks |-> insertBefore(B, NewI, i),
      ok |-> TRUE]

getTypedFunctionType(f) ==
  LET FTy == FunctionTable[f]
      MD == FTy.md
      hit(n) == {j \in 1..Len(MD) : MD[j][1] = n - 1}
      last(n) == CHOOSE j \in hit(n) : \A j2 \in hit(n) : j2 <= j
      Args == [n \in 1..Len(FTy.params) |->
                 IF hit(n) = {} THEN FTy.params[n]
                 ELSE TypedPointerType(MD[last(n)][2], FTy.params[n].as)]
  IN FunctionType(FTy.ret, Args)

\* A variant that accepts any value that is not an instruction.
isNoopCastOrNoInstruction(I, v) ==
  v.k = "inst" => (I[v.i].op = "bitcast" /\ TypeIn(I, I[v.i].ops[1]) = I[v.i].ty)

isNoopCast(I, v) ==
  /\ v.k = "inst"
  /\ I[v.i].op = "bitcast"
  /\ TypeIn(I, I[v.i].ops[1]) = I[v.i].ty

\* prependBitcast without the phi case: the cast always goes in front of
\* the using instruction.
prependBitcastInPlace(I, B, i, Idx) ==
  LET V == getOperand(I, i, Idx)
      Cast == Len(I) + 1
      I1 == Append(I, MkInst("bitcast", TypeIn(I, V), <<V>>, NoEl, NoEl,
                             <<>>, "pre"))
  IN [insts |-> setOperand(I1, i, Idx, Inst(Cast)),
      blocks |-> insertBefore(B, Cast, i),
      ok |-> isPointerTy(TypeIn(I, V))]

\* prependBitcast casting to the generic address space instead of the
\* operand's own type.
prependBitcastGeneric(I, B, i, Idx) ==
  LET V == getOperand(I, i, Idx)
      Cast == Len(I) + 1
      I1 == Append(I, MkInst("bitcast", Ptr(0), <<V>>, NoEl, NoEl, <<>>, "pre"))
      B1 == IF I[i].op = "phi"
            THEN insertBefore(B, Cast, getTerminator(B, I[i].inb[Idx + 1]))
            ELSE insertBefore(B, Cast, i)
  IN [insts |-> setOperand(I1, i, Idx, Inst(Cast)),
      blocks |-> B1,
      ok |-> isPointerTy(TypeIn(I, V))]

prependBitcast(I, B, i, Idx) ==
  LET V == getOperand(I, i, Idx)
      Cast == Len(I) + 1
      I1 == Append(I, MkInst("bitcast", TypeIn(I, V), <<V>>, NoEl, NoEl,
                             <<>>, "pre"))
      B1 == IF I[i].op = "phi"
            THEN insertBefore(B, Cast, getTerminator(B, I[i].inb[Idx + 1]))
            ELSE insertBefore(B, Cast, i)
  IN [insts |-> setOperand(I1, i, Idx, Inst(Cast)),
      blocks |-> B1,
      ok |-> isPointerTy(TypeIn(I, V))]

RECURSIVE prependAll(_, _)
prependAll(M, wl) ==
  IF wl = <<>> THEN M
  ELSE LET r == prependBitcast(M.insts, M.blocks, Head(wl)[1], Head(wl)[2])
       IN prependAll([r EXCEPT !.ok = M.ok /\ r.ok], Tail(wl))

\* replaceWithBitcast walking the use list while rewriting it: the walk ends
\* after the first use.
replaceWithBitcastFirstUse(I, B, V) ==
  LET R(M, wl) ==
        IF wl = <<>> THEN M
        ELSE prependBitcast(M.insts, M.blocks, Head(wl)[1], Head(wl)[2])
  IN R([insts |-> I, blocks |-> B, ok |-> TRUE], uses(I, B, V))

replaceWithBitcast(I, B, V) ==
  prependAll([insts |-> I, blocks |-> B, ok |-> isPointerTy(TypeIn(I, V))],
             uses(I, B, V))

replaceAllUsesWith(I, old, new) ==
  [j \in DOMAIN I |->
     [I[j] EXCEPT !.ops = [n \in DOMAIN @ |-> IF @[n] = old THEN new ELSE @[n]]]]

\* appendBitcast up to and including I->replaceAllUsesWith(Cast).
appendBitcastRAUW(I, B, i) ==
  LET Cast == Len(I) + 1
      I1 == Append(I, MkInst("bitcast", I[i].ty, <<Inst(i)>>, NoEl, NoEl,
                             <<>>, "app"))
  IN [insts |-> replaceAllUsesWith(I1, Inst(i), Inst(Cast)),
      blocks |-> insertAfter(B, Cast, i),
      ok |-> isPointerTy(I[i].ty)]

\* appendBitcast without its last statement.
appendBitcastNoUndo(I, Cast, i) == I

\* appendBitcast's last statement: Cast->setOperand(0, I).
appendBitcastUndo(I, Cast, i) == setOperand(I, Cast, 0, Inst(i))

IsTypedSite(ins) ==
  ins.op \in {"load", "store", "atomicrmw", "cmpxchg", "getelementptr", "alloca"}

InstructionWorklist(I, B) == SelectSeq(Layout(B), LAMBDA i : IsTypedSite(I[i]))

\* bitcastInstructionOperands without its atomicrmw and cmpxchg arms.
bitcastInstructionNoAtomics(I, B, i) ==
  IF I[i].op \in {"load", "store"}
  THEN prependBitcast(I, B, i, getPointerOperandIndex(I[i]))
  ELSE IF I[i].op \in {"atomicrmw", "cmpxchg"}
  THEN [insts |-> I, blocks |-> B, ok |-> TRUE]
  ELSE IF I[i].op = "getelementptr"
  THEN LET r == prependBitcast(I, B, i, getPointerOperandIndex(I[i]))
           a == appendBitcastRAUW(r.insts, r.blocks, i)
       IN [a EXCEPT !.ok = r.ok /\ a.ok]
  ELSE appendBitcastRAUW(I, B, i)

\* The part of bitcastInstructionOperands' loop body before appendBitcast
\* resets its marker's operand.
bitcastInstruction(I, B, i) ==
  IF I[i].op \in {"load", "store", "atomicrmw", "cmpxchg"}
  THEN prependBitcast(I, B, i, getPointerOperandIndex(I[i]))
  ELSE IF I[i].op = "getelementptr"
  THEN LET r == prependBitcast(I, B, i, getPointerOperandIndex(I[i]))
           a == appendBitcastRAUW(r.insts, r.blocks, i)
       IN [a EXCEPT !.ok = r.ok /\ a.ok]
  ELSE appendBitcastRAUW(I, B, i)

\* The argument numbers of a call that bitcastFunctionOperands wraps for
\* callee type FTy / NewFTy.
RetypedArgs(f, n) ==
  {Idx \in 0..(n - 1) :
     /\ Idx < Len(FunctionTable[f].params)
     /\ getFunctionType(f).params[Idx + 1] # getTypedFunctionType(f).params[Idx + 1]}

\* for (User *U : F.users()): the loop reads the next use from the use it
\* is at, so it ends when the use it is at has been moved to a marker.
RECURSIVE bitcastCallsTo(_, _, _)
bitcastCallsTo(M, f, us) ==
  IF us = <<>> THEN M
  ELSE LET CI == Head(us)[1]
           n == Head(us)[2]
           I == M.insts
       IN IF getOperand(I, CI, n) # Fn(f)
          THEN bitcastCallsTo(M, f, Tail(us))
          ELSE IF I[CI].op # "call"
          THEN bitcastCallsTo(M, f, Tail(us))
          ELSE LET as == arg_size(I[CI])
                   wl == SelectSeq([x \in 1..as |-> <<CI, x - 1>>],
                                   LAMBDA u : u[2] \in RetypedArgs(f, as))
                   r == prependAll(M, wl)
                   r1 == [r EXCEPT !.ok = @ /\ as <= Len(FunctionTable[f].params)]
               IN IF n \in RetypedArgs(f, as) THEN r1
                  ELSE bitcastCallsTo(r1, f, Tail(us))

bitcastFunction(I, B, f) ==
  IF getFunctionType(f) = getTypedFunctionType(f)
  THEN [insts |-> I, blocks |-> B, ok |-> TRUE]
  ELSE bitcastCallsTo([insts |-> I, blocks |-> B, ok |-> TRUE], f,
                      uses(I, B, Fn(f)))

\* buildPointerMap's loop over the instructions.  ok: no assertion fired;
\* map: the entries written (a build without assertions writes them all).
RECURSIVE mapInstructions(_, _, _, _)
mapInstructions(I, B, ids, R) ==
  IF ids = <<>> THEN R
  ELSE
    LET i == Head(ids)
        ins == I[i]
        P == getPointerOperand(I, i)
        AS == TypeIn(I, P).as
        oneUse == /\ Len(uses(I, B, Inst(i))) = 1
                  /\ isNoopCast(I, Inst(uses(I, B, Inst(i))[1][1]))
        R1 ==
          CASE ins.op = "load" ->
                 [ok |-> R.ok /\ isNoopCast(I, P),
                  map |-> Put(R.map, P, TypedPointerType(ins.ty, AS))]
            [] ins.op = "store" ->
                 [ok |-> R.ok /\ isNoopCast(I, P),
                  map |-> Put(R.map, P,
                              TypedPointerType(TypeIn(I, ins.ops[1]), AS))]
            [] ins.op = "atomicrmw" ->
                 [ok |-> R.ok /\ isNoopCast(I, P),
                  map |-> Put(R.map, P,
                              TypedPointerType(TypeIn(I, ins.ops[2]), AS))]
            [] ins.op = "cmpxchg" ->
                 [ok |-> R.ok /\ isNoopCast(I, P),
                  map |-> Put(R.map, P,
                              TypedPointerType(TypeIn(I, ins.ops[3]), AS))]
            [] ins.op = "getelementptr" ->
                 [ok |-> R.ok /\ isNoopCast(I, P) /\ oneUse,
                  map |-> Put(Put(R.map, P, TypedPointerType(ins.el, AS)),
                              Inst(i), TypedPointerType(ins.rel, AS))]
            [] ins.op = "alloca" ->
                 [ok |-> R.ok /\ oneUse,
                  map |-> Put(R.map, Inst(i),
                              TypedPointerType(ins.el, ins.ty.as))]
            [] OTHER -> R
    IN mapInstructions(I, B, Tail(ids), R1)

\* buildPointerMap's inner loops for one function F and parameter i.
RECURSIVE mapCallArgs(_, _, _, _, _)
mapCallArgs(I, f, i, us, R) ==
  IF us = <<>> THEN R
  ELSE LET CI == Head(us)[1]
       IN IF I[CI].op # "call" THEN mapCallArgs(I, f, i, Tail(us), R)
          ELSE IF i >= arg_size(I[CI])
          THEN mapCallArgs(I, f, i, Tail(us), [R EXCEPT !.ok = FALSE])
          ELSE mapCallArgs(I, f, i, Tail(us),
                 [ok |-> R.ok /\ isNoopCast(I, getOperand(I, CI, i)),
                  map |-> Put(R.map, getOperand(I, CI, i),
                              getTypedFunctionType(f).params[i + 1])])

RECURSIVE mapParams(_, _, _, _, _)
mapParams(I, B, f, i, R) ==
  IF i >= Len(FunctionTable[f].params) THEN R
  ELSE IF getFunctionType(f).params[i + 1] = getTypedFunctionType(f).params[i + 1]
  THEN mapParams(I, B, f, i + 1, R)
  ELSE mapParams(I, B, f, i + 1, mapCallArgs(I, f, i, uses(I, B, Fn(f)), R))

RECURSIVE mapFunctions(_, _, _, _)
mapFunctions(I, B, fs, R) ==
  IF fs = <<>> THEN R
  ELSE LET f == Head(fs)
           R1 == [R EXCEPT !.map = Put(@, Fn(f),
                     TypedPointerType(getTypedFunctionType(f),
                                      FunctionTable[f].as))]
       IN mapFunctions(I, B, Tail(fs),
            IF getFunctionType(f) = getTypedFunctionType(f) THEN R1
            ELSE mapParams(I, B, f, 0, R1))

RECURSIVE mapGlobals(_, _)
mapGlobals(gs, m) ==
  IF gs = <<>> THEN m
  ELSE mapGlobals(Tail(gs),
         Put(m, GV(Head(gs)),
             TypedPointerType(GlobalTable[Head(gs)].valueType,
                              GlobalTable[Head(gs)].as)))

EmptyMap == [x \in {} |-> NoEl]

buildPointerMap(I, B, gs, fs) ==
  mapFunctions(I, B, fs,
    mapInstructions(I, B, Layout(B),
      [ok |-> TRUE, map |-> mapGlobals(gs, EmptyMap)]))

(***************************************************************************)
(* The modules PointerRewriter is run on: @f with blocks                   *)
(*   B1: <body before the first phi>; br B2, B3                            *)
(*   B2: br B3                                                             *)
(*   B3: <phis and the body after them>; ret                               *)
(* with or without the globals @g1, @g2, and the declarations @F1, @G.     *)
(* Loads, stores and getelementptr take any pointer; the atomics, the      *)
(* second incoming value of a phi and the calls take a narrower choice.    *)
(***************************************************************************)
PointerValues(body, withG) ==
  (IF withG THEN {GV(1), CE(1), CE(2)} ELSE {})
  \cup {Arg(1, 1)}
  \cup {Inst(j) : j \in {x \in 1..Len(body) : isPointerTy(body[x].ty)}}

firstPhi(body) ==
  IF \E j \in 1..Len(body) : body[j].op = "phi"
  THEN CHOOSE j \in 1..Len(body) :
         body[j].op = "phi" /\ \A x \in 1..(j - 1) : body[x].op # "phi"
  ELSE Len(body) + 1

Shapes(body, withG) ==
  LET P == PointerValues(body, withG)
      P1 == {p \in P : TypeIn(body, p) = Ptr(1)}
      phiOK == firstPhi(body) > Len(body) \/ body[Len(body)].op = "phi"
      PB == {p \in P : p.k = "inst" => p.i < firstPhi(body)}
  IN {LoadInst(Scalar("i32"), p) : p \in P}
     \cup {StoreInst(K("f32"), p) : p \in P}
     \cup {AtomicRMWInst(p, K("i64")) : p \in P1 \ {CE(1)}}
     \cup {AtomicCmpXchgInst(p, K("i16"), K("i16")) : p \in P \cap {Arg(1, 1), GV(1)}}
     \cup {GetElementPtrInst(TypeIn(body, p), Scalar("struct"), Int8Ty, p) :
             p \in P}
     \cup {AllocaInst(Scalar("f64"), 0)}
     \cup (IF phiOK
           THEN {PHINode(TypeIn(body, pr[1]), pr, <<1, 2>>) :
                   pr \in {x \in PB \X (PB \ {CE(1), CE(2)}) :
                            TypeIn(body, x[1]) = TypeIn(body, x[2])}}
           ELSE {})
     \cup {CallInst(VoidTy, Fn(2), <<p, K("i32")>>) : p \in P1}
     \cup {CallInst(VoidTy, Fn(3), <<Fn(2), Arg(1, 1)>>)}

RECURSIVE BodiesOfLen(_, _)
BodiesOfLen(n, withG) ==
  IF n = 0 THEN {<<>>}
  ELSE UNION {{Append(b, s) : s \in Shapes(b, withG)} :
                b \in BodiesOfLen(n - 1, withG)}

Bodies(withG) == UNION {BodiesOfLen(n, withG) : n \in 0..MaxBody}

ModuleInsts(body) == body \o <<BranchInst, BranchInst, ReturnInst(<<>>)>>

ModuleBlocks(body) ==
  LET n == Len(body)
      fp == firstPhi(body)
  IN <<[fn |-> 1, body |-> [j \in 1..(fp - 1) |-> j] \o <<n + 1>>],
       [fn |-> 1, body |-> <<n + 2>>],
       [fn |-> 1, body |-> [j \in 1..(n + 1 - fp) |-> fp + j - 1] \o <<n + 3>>]>>

Init ==
  \E withG \in BOOLEAN :
    \E body \in Bodies(withG) :
      /\ insts = ModuleInsts(body)
      /\ blocks = ModuleBlocks(body)
      /\ globals = IF withG THEN <<1, 2>> ELSE <<>>
      /\ functions = <<1, 2, 3>>
      /\ pc = "demote"
      /\ worklist = ConstExprSlots(ModuleInsts(body), Layout(ModuleBlocks(body)))
      /\ found = (ConstExprSlots(ModuleInsts(body), Layout(ModuleBlocks(body))) # <<>>)
      /\ Changed = FALSE
      /\ results = <<>>
      /\ PointerMap = EmptyMap
      /\ failed = FALSE

(***************************************************************************)
(* PointerRewriter::run, one Worklist item per step, then buildPointerMap. *)
(***************************************************************************)
Apply(r) ==
  /\ insts' = r.insts
  /\ blocks' = r.blocks
  /\ failed' = (failed \/ ~r.ok)

DemoteStep ==
  /\ pc = "demote" /\ worklist # <<>> /\ ~failed
  /\ Apply(demoteOne(insts, blocks, Head(worklist)[1], Head(worklist)[2]))
  /\ worklist' = Tail(worklist)
  /\ UNCHANGED <<globals, functions, pc, found, Changed, results, PointerMap>>

DemoteReturn ==
  /\ pc = "demote" /\ worklist = <<>> /\ ~failed
  /\ Changed' = found
  /\ results' = Append(results, found)
  /\ pc' = "globals"
  /\ worklist' = globals
  /\ found' = (globals # <<>>)
  /\ UNCHANGED <<insts, blocks, globals, functions, PointerMap, failed>>

GlobalsStep ==
  /\ pc = "globals" /\ worklist # <<>> /\ ~failed
  /\ Apply(replaceWithBitcast(insts, blocks, GV(Head(worklist))))
  /\ worklist' = Tail(worklist)
  /\ UNCHANGED <<globals, functions, pc, found, Changed, results, PointerMap>>

GlobalsReturn ==
  /\ pc = "globals" /\ worklist = <<>> /\ ~failed
  /\ Changed' = (Changed \/ found)
  /\ results' = Append(results, found)
  /\ pc' = "instops"
  /\ worklist' = InstructionWorklist(insts, blocks)
  /\ found' = (InstructionWorklist(insts, blocks) # <<>>)
  /\ UNCHANGED <<insts, blocks, globals, functions, PointerMap, failed>>

InstOpsStep ==
  /\ pc = "instops" /\ worklist # <<>> /\ ~failed
  /\ Apply(bitcastInstruction(insts, blocks, Head(worklist)))
  /\ IF insts[Head(worklist)].op \in {"getelementptr", "alloca"}
     THEN pc' = "instops_undo" /\ worklist' = worklist
     ELSE pc' = pc /\ worklist' = Tail(worklist)
  /\ UNCHANGED <<globals, functions, found, Changed, results, PointerMap>>

AppendUndo ==
  /\ pc = "instops_undo" /\ ~failed
  /\ insts' = appendBitcastUndo(insts, Len(insts), Head(worklist))
  /\ pc' = "instops"
  /\ worklist' = Tail(worklist)
  /\ UNCHANGED <<blocks, globals, functions, found, Changed, results, PointerMap, failed>>

InstOpsReturn ==
  /\ pc = "instops" /\ worklist = <<>> /\ ~failed
  /\ Changed' = (Changed \/ found)
  /\ results' = Append(results, found)
  /\ pc' = "funcops"
  /\ worklist' = functions
  /\ found' = FALSE
  /\ UNCHANGED <<insts, blocks, globals, functions, PointerMap, failed>>

FuncOpsStep ==
  /\ pc = "funcops" /\ worklist # <<>> /\ ~failed
  /\ Apply(bitcastFunction(insts, blocks, Head(worklist)))
  /\ worklist' = Tail(worklist)
  /\ UNCHANGED <<globals, functions, pc, found, Changed, results, PointerMap>>

FuncOpsReturn ==
  /\ pc = "funcops" /\ worklist = <<>> /\ ~failed
  /\ Changed' = (Changed \/ found)
  /\ results' = Append(results, found)
  /\ pc' = "done"
  /\ UNCHANGED <<insts, blocks, globals, functions, worklist, found,
                 PointerMap, failed>>

BuildMap ==
  /\ pc = "done" /\ ~failed
  /\ LET R == buildPointerMap(insts, blocks, globals, functions)
     IN PointerMap' = R.map /\ failed' = ~R.ok
  /\ pc' = "mapped"
  /\ UNCHANGED <<insts, blocks, globals, functions, worklist, found, Changed, results>>

Next ==
  \/ DemoteStep
  \/ DemoteReturn
  \/ GlobalsStep
  \/ GlobalsReturn
  \/ InstOpsStep
  \/ AppendUndo
  \/ InstOpsReturn
  \/ FuncOpsStep
  \/ FuncOpsReturn
  \/ BuildMap

Spec == Init /\ [][Next]_vars

(***************************************************************************)
(* A caller that runs PointerRewriter::run again on the module it has      *)
(* already rewritten, before buildPointerMap.  results grows by four       *)
(* entries per run.                                                        *)
(***************************************************************************)
MaxRuns == 2      \* runs of PointerRewriter::run on one module

RunsReturned == Len(results) \div 4

RunAgain ==
  /\ pc = "done" /\ ~failed /\ RunsReturned < MaxRuns
  /\ pc' = "demote"
  /\ worklist' = ConstExprSlots(insts, Layout(blocks))
  /\ found' = (ConstExprSlots(insts, Layout(blocks)) # <<>>)
  /\ Changed' = FALSE
  /\ UNCHANGED <<insts, blocks, globals, functions, results, PointerMap, failed>>

NextRerun ==
  \/ Next
  \/ RunAgain

SpecRerun == Init /\ [][NextRerun]_vars

(***************************************************************************)
(* A caller that runs buildPointerMap on a module on which marker          *)
(* insertion has not run or has not got past bitcastGlobals.               *)
(***************************************************************************)
BuildMapEarly ==
  /\ pc \in {"demote", "globals"} /\ ~failed
  /\ LET R == buildPointerMap(insts, blocks, globals, functions)
     IN PointerMap' = R.map /\ failed' = ~R.ok
  /\ pc' = "mapped_early"
  /\ UNCHANGED <<insts, blocks, globals, functions, worklist, found, Changed, results>>

NextEarly ==
  \/ DemoteStep
  \/ DemoteReturn
  \/ GlobalsStep
  \/ BuildMapEarly

SpecEarly == Init /\ [][NextEarly]_vars

(***************************************************************************)
(* Claims about PointerRewriter (specification Spec).                      *)
(***************************************************************************)
Ids == 1..Len(insts)
IsMarker(i) == insts[i].org \in {"pre", "app"}
Inserted == pc \in {"done", "mapped"} /\ ~failed
HasPointerOperand(i) ==
  insts[i].op \in {"load", "store", "atomicrmw", "cmpxchg", "getelementptr"}
PosOf(i) == IndexOf(blocks[getParent(blocks, i)].body, i)

\* The number of markers passed when following operands back from value v.
RECURSIVE ChainLen(_)
ChainLen(v) ==
  IF v.k = "inst" /\ IsMarker(v.i) /\ insts[v.i].ops[1] # v
  THEN 1 + ChainLen(insts[v.i].ops[1])
  ELSE 0

\* The first value that is not a marker, following operands back from v.
RECURSIVE Producer(_)
Producer(v) ==
  IF v.k = "inst" /\ IsMarker(v.i) /\ insts[v.i].ops[1] # v
  THEN Producer(insts[v.i].ops[1])
  ELSE v

CarriesOwnMarker(v) ==
  \/ v.k = "gv"
  \/ v.k = "inst" /\ insts[v.i].op \in {"getelementptr", "alloca"}

ImmediatelyBefore(m, i) ==
  getParent(blocks, m) = getParent(blocks, i) /\ PosOf(m) + 1 = PosOf(i)

\* C1 as stated: after marker insertion every typed site's pointer operand
\* is reached through exactly one marker, never a chain of two.
C1_ExactlyOneMarker ==
  Inserted =>
    \A i \in Ids : HasPointerOperand(i) =>
      ChainLen(getPointerOperand(insts, i)) = 1

\* C1 amended: after marker insertion the pointer operand of every
\* load/store/atomicrmw/cmpxchg/getelementptr is a marker placed immediately
\* before it, every getelementptr and alloca result has one user, a marker
\* placed immediately after it, and every instruction using a global
\* variable is a marker; the chain at a site has one marker, or two when the
\* producer is a global variable, a getelementptr or an alloca.
C1_MarkersAtEverySite ==
  Inserted =>
    /\ \A i \in Ids : HasPointerOperand(i) =>
         LET P == getPointerOperand(insts, i)
         IN /\ P.k = "inst" /\ IsMarker(P.i)
            /\ ImmediatelyBefore(P.i, i)
            /\ ChainLen(P) = IF CarriesOwnMarker(Producer(P)) THEN 2 ELSE 1
    /\ \A i \in Ids : insts[i].op \in {"getelementptr", "alloca"} =>
         LET us == uses(insts, blocks, Inst(i))
         IN /\ Len(us) = 1
            /\ IsMarker(us[1][1])
            /\ ImmediatelyBefore(i, us[1][1])
    /\ \A g \in 1..Len(globals) :
         \A j \in 1..Len(uses(insts, blocks, GV(globals[g]))) :
           IsMarker(uses(insts, blocks, GV(globals[g]))[j][1])

\* A global is the producer of a load's pointer operand, behind two markers.
C1_Witness ==
  /\ Inserted
  /\ \E i \in Ids :
       /\ insts[i].op = "load"
       /\ Producer(getPointerOperand(insts, i)).k = "gv"
       /\ ChainLen(getPointerOperand(insts, i)) = 2

\* C2: every inserted marker has exactly one operand and its result type is
\* its operand's type, in every state during and after the run.
C2_MarkerTransparent ==
  \A i \in Ids : IsMarker(i) =>
    /\ Len(insts[i].ops) = 1
    /\ getType(insts[i].ops[1]) = insts[i].ty

\* appendBitcast has replaced all uses, its marker's included, and has not
\* yet reset the marker's operand; the value is in address space 1.
C2_Witness ==
  /\ pc = "instops_undo"
  /\ insts[Len(insts)].ops[1] = Inst(Len(insts))
  /\ \E i \in Ids : IsMarker(i) /\ insts[i].ty = Ptr(1)

\* C3 as stated: once demotePointerConstexprs has returned, no instruction
\* has a constant expression as a direct operand (a second run would find
\* an empty Worklist and return false).
C3_DemotionFixedPoint ==
  pc # "demote" => ConstExprSlots(insts, Layout(blocks)) = <<>>

\* C4: after one run, buildPointerMap passes its assertions and maps every
\* site's pointer operand, every getelementptr and alloca result and every
\* global variable to the descriptor the instruction fixes.
C4_MapEntries ==
  pc = "mapped" =>
    /\ ~failed
    /\ \A i \in Ids :
         LET ins == insts[i]
             P == getPointerOperand(insts, i)
             has(v, el, as) ==
               v \in DOMAIN PointerMap /\ PointerMap[v] = TypedPointerType(el, as)
         IN /\ ins.op = "load" => has(P, ins.ty, getType(P).as)
            /\ ins.op = "store" => has(P, getType(ins.ops[1]), getType(P).as)
            /\ ins.op = "getelementptr" =>
                 /\ has(P, ins.el, getType(P).as)
                 /\ has(Inst(i), ins.rel, ins.ty.as)
            /\ ins.op = "alloca" => has(Inst(i), ins.el, ins.ty.as)
    /\ \A g \in 1..Len(globals) :
         /\ GV(globals[g]) \in DOMAIN PointerMap
         /\ PointerMap[GV(globals[g])] =
              TypedPointerType(GlobalTable[globals[g]].valueType,
                               GlobalTable[globals[g]].as)

\* The users of a global variable that are not instructions: constant
\* expressions reachable from an instruction operand, and initializers.
RECURSIVE ConstExprUses(_, _)
ConstExprUses(v, g) ==
  IF v.k # "ce" THEN FALSE
  ELSE \E n \in 1..Len(ConstExprTable[v.i].ops) :
         \/ ConstExprTable[v.i].ops[n] = GV(g)
         \/ ConstExprUses(ConstExprTable[v.i].ops[n], g)

HasConstantUser(g) ==
  \/ \E i \in Ids : \E n \in 1..Len(insts[i].ops) : ConstExprUses(insts[i].ops[n], g)
  \/ \E h \in 1..Len(globals) : GlobalTable[globals[h]].init = GV(g)

InstructionUsesWrapped(g) ==
  \A j \in 1..Len(uses(insts, blocks, GV(g))) :
    LET m == uses(insts, blocks, GV(g))[j][1]
        us == uses(insts, blocks, Inst(m))
        c == us[1][1]
    IN /\ IsMarker(m)
       /\ Len(us) = 1
       /\ IF insts[c].op = "phi"
          THEN /\ getParent(blocks, m) = insts[c].inb[us[1][2] + 1]
               /\ PosOf(m) < PosOf(getTerminator(blocks, getParent(blocks, m)))
          ELSE /\ getParent(blocks, m) = getParent(blocks, c)
               /\ PosOf(m) < PosOf(c)

C6_ChangedIffInserted ==
  pc = "done" =>
    ((results[2] \/ results[3] \/ results[4]) <=> \E i \in Ids : IsMarker(i))


\* C11: when buildPointerMap has run on a module with a load, store, atomic,
\* getelementptr or alloca that PointerRewriter::run has rewritten twice, an
\* assertion of buildPointerMap has fired.
C11_SecondRunAsserts ==
  /\ pc = "mapped" /\ RunsReturned = 2
  /\ \E i \in Ids : insts[i].org = "orig" /\ IsTypedSite(insts[i])
  => failed

\* A load, store, atomic or getelementptr whose pointer operand is not a
\* marker, or a getelementptr or alloca whose single user is not one.
SameTypeBitcast(v) ==
  /\ v.k = "inst"
  /\ insts[v.i].op = "bitcast"
  /\ getType(insts[v.i].ops[1]) = insts[v.i].ty

Unmarked(i) ==
  \/ /\ insts[i].op \in {"load", "store", "atomicrmw", "cmpxchg", "getelementptr"}
     /\ ~SameTypeBitcast(getPointerOperand(insts, i))
  \/ /\ insts[i].op \in {"getelementptr", "alloca"}
     /\ Len(uses(insts, blocks, Inst(i))) = 1
     /\ ~SameTypeBitcast(Inst(uses(insts, blocks, Inst(i))[1][1]))

\* C12: when buildPointerMap has run on a module that has an unmarked
\* binding site, an assertion has fired and no map is returned.
C12_UnmarkedSiteAsserts ==
  pc = "mapped_early" /\ (\E i \in Ids : Unmarked(i)) => failed

\* buildPointerMap has failed on a module in which bitcastGlobals has marked
\* one binding site and another is unmarked.
C12_Witness ==
  /\ pc = "mapped_early" /\ failed
  /\ \E i, j \in Ids :
       /\ Unmarked(i)
       /\ insts[j].op \in {"load", "store"}
       /\ SameTypeBitcast(getPointerOperand(insts, j))

(***************************************************************************)
(* PointerTypeAnalysis.  The analysis does not change the IR; it fills     *)
(* PointerMap.  Operators returning [map, ok] report in ok whether the     *)
(* call returned (no assertion fired, the recursion ended).                *)
(***************************************************************************)
getPointerAddressSpace(I, v) == TypeIn(I, v).as

\* V->users(): one entry per use.
users(I, B, V) ==
  LET us == uses(I, B, V) IN [n \in 1..Len(us) |-> us[n][1]]

classifyPointer(I, V, Map) ==
  IF V \in DOMAIN Map THEN Map[V]
  ELSE TypedPointerType(Int8Ty, getPointerAddressSpace(I, V))

\* A variant of the lambda that records the descriptor for the user it
\* has reached instead of the value it came from.
RECURSIVE PropagateTypeForwardsToUser(_, _, _, _, _, _, _)
PropagateTypeForwardsToUser(I, B, V, us, PointeeTy, R, stack) ==
  IF us = <<>> \/ ~R.ok THEN R
  ELSE
    LET User == Head(us)
        TypedPtrTy == TypedPointerType(PointeeTy, getPointerAddressSpace(I, V))
        R1 == [R EXCEPT !.map = Put(@, Inst(User), TypedPtrTy)]
        R2 == IF Inst(User) \in stack THEN [R1 EXCEPT !.ok = FALSE]
              ELSE PropagateTypeForwardsToUser(I, B, Inst(User),
                     users(I, B, Inst(User)), PointeeTy, R1,
                     stack \cup {Inst(User)})
    IN IF I[User].op \in {"select", "phi", "addrspacecast"}
       THEN PropagateTypeForwardsToUser(I, B, V, Tail(us), PointeeTy, R2, stack)
       ELSE PropagateTypeForwardsToUser(I, B, V, Tail(us), PointeeTy, R, stack)

\* The PropagateType lambda of classifyInstructionsForwards, applied to V
\* with the users us of V still to visit.  The lambda has no visited check:
\* re-entering a value that is on the call stack never returns.
RECURSIVE PropagateTypeForwards(_, _, _, _, _, _, _)
PropagateTypeForwards(I, B, V, us, PointeeTy, R, stack) ==
  IF us = <<>> \/ ~R.ok THEN R
  ELSE
    LET User == Head(us)
        TypedPtrTy == TypedPointerType(PointeeTy, getPointerAddressSpace(I, V))
        R1 == [R EXCEPT !.map = Put(@, V, TypedPtrTy)]
        R2 == IF Inst(User) \in stack THEN [R1 EXCEPT !.ok = FALSE]
              ELSE PropagateTypeForwards(I, B, Inst(User),
                     users(I, B, Inst(User)), PointeeTy, R1,
                     stack \cup {Inst(User)})
    IN IF I[User].op \in {"select", "phi", "addrspacecast"}
       THEN PropagateTypeForwards(I, B, V, Tail(us), PointeeTy, R2, stack)
       ELSE PropagateTypeForwards(I, B, V, Tail(us), PointeeTy, R, stack)

classifyInstructionsForwards(I, B, V, Map) ==
  LET PointeeTy ==
        CASE V.k = "inst" /\ I[V.i].op = "getelementptr" ->
               IF isPointerTy(I[V.i].rel) THEN NoEl ELSE I[V.i].rel
          [] V.k = "inst" /\ I[V.i].op = "alloca" -> I[V.i].el
          [] V.k = "gv" -> GlobalTable[V.i].valueType
          [] OTHER -> NoEl
  IN IF ~isPointerTy(TypeIn(I, V)) \/ V \in DOMAIN Map \/ PointeeTy = NoEl
     THEN [map |-> Map, ok |-> TRUE]
     ELSE PropagateTypeForwards(I, B, V, users(I, B, V), PointeeTy,
            [map |-> Put(Map, V,
                         TypedPointerType(PointeeTy,
                                          getPointerAddressSpace(I, V))),
             ok |-> TRUE],
            {V})

\* The values the PropagateType lambda of classifyInstructionsBackwards
\* pushes for one user of V.
PointerOperands(I, User) ==
  CASE I[User].op = "select" ->
         [n \in 1..Len(I[User].ops) |-> Inst(User)]
    [] I[User].op = "phi" -> I[User].ops
    [] I[User].op = "addrspacecast" -> <<getOperand(I, User, 0)>>
    [] OTHER -> <<>>

\* The PropagateType lambda of classifyInstructionsBackwards, applied to
\* the values Vs in turn (depth first).
RECURSIVE PropagateTypeBackwards(_, _, _, _, _)
PropagateTypeBackwards(I, B, Vs, Ty, Map) ==
  IF Vs = <<>> THEN Map
  ELSE
    LET V == Head(Vs)
        us == users(I, B, V)
    IN IF V \in DOMAIN Map
       THEN PropagateTypeBackwards(I, B, Tail(Vs), Ty, Map)
       ELSE PropagateTypeBackwards(I, B,
              Concat([n \in 1..Len(us) |-> PointerOperands(I, us[n])])
                \o Tail(Vs),
              Ty,
              Put(Map, V, TypedPointerType(Ty, getPointerAddressSpace(I, V))))

classifyInstructionsBackwards(I, B, i, Map) ==
  LET ins == I[i]
      ElementType ==
        CASE ins.op = "load" -> ins.ty
          [] ins.op = "store" -> TypeIn(I, getOperand(I, i, 0))
          [] ins.op = "getelementptr" -> ins.el
          [] OTHER -> NoEl
  IN IF ElementType = NoEl \/ (ins.op = "store" /\ isPointerTy(ElementType))
     THEN Map
     ELSE PropagateTypeBackwards(I, B, <<getPointerOperand(I, i)>>,
                                 ElementType, Map)


\* The returned values of F's return instructions, in block order.
ReturnValues(I, B, f) ==
  LET bs == SelectSeq([b \in 1..Len(B) |-> b],
                      LAMBDA b : B[b].fn = f /\ I[getTerminator(B, b)].op = "ret")
  IN [n \in 1..Len(bs) |-> getOperand(I, getTerminator(B, bs[n]), 0)]

\* A variant of the return-site loop that keeps the first site's descriptor
\* when a later site disagrees.
RECURSIVE classifyReturnTypeKeepFirst(_, _, _, _, _)
classifyReturnTypeKeepFirst(I, sites, RetTy, Map, AS) ==
  IF sites = <<>>
  THEN IF RetTy = NoEl THEN TypedPointerType(Int8Ty, AS) ELSE RetTy
  ELSE classifyReturnTypeKeepFirst(I, Tail(sites),
         IF RetTy = NoEl THEN classifyPointer(I, Head(sites), Map) ELSE RetTy,
         Map, AS)

\* classifyFunctionType's loop over the return sites; RetTy = NoEl stands
\* for the null RetTy.
RECURSIVE classifyReturnType(_, _, _, _, _)
classifyReturnType(I, sites, RetTy, Map, AS) ==
  IF sites = <<>>
  THEN IF RetTy = NoEl THEN TypedPointerType(Int8Ty, AS) ELSE RetTy
  ELSE LET NewRetTy == classifyPointer(I, Head(sites), Map)
       IN classifyReturnType(I, Tail(sites),
            IF RetTy = NoEl THEN NewRetTy
            ELSE IF RetTy # NewRetTy THEN TypedPointerType(Int8Ty, AS)
            ELSE RetTy,
            Map, AS)

classifyFunctionType(I, B, f, Map) ==
  IF Fn(f) \in DOMAIN Map THEN [map |-> Map, ty |-> Map[Fn(f)], ok |-> TRUE]
  ELSE
    LET FTy == FunctionTable[f]
        RetTy == IF isPointerTy(FTy.ret)
                 THEN classifyReturnType(I, ReturnValues(I, B, f), NoEl, Map,
                                         FTy.ret.as)
                 ELSE FTy.ret
        NewArgs == [n \in 1..Len(FTy.params) |->
                      IF isPointerTy(FTy.params[n])
                      THEN classifyPointer(I, Arg(f, n), Map)
                      ELSE FTy.params[n]]
        TypedPtrTy == TypedPointerType(FunctionType(RetTy, NewArgs), 0)
    IN [map |-> Put(Map, Fn(f), TypedPtrTy), ty |-> TypedPtrTy, ok |-> TRUE]

\* classifyConstantWithOpaquePtr; classifyElements is its loop over the
\* elements of an aggregate, collecting their types in R.tys.
RECURSIVE classifyConstantWithOpaquePtr(_, _, _, _)
RECURSIVE classifyElements(_, _, _, _)
classifyElements(I, B, elts, R) ==
  IF elts = <<>> THEN R
  ELSE LET E == classifyConstantWithOpaquePtr(I, B, Head(elts), R.map)
       IN classifyElements(I, B, Tail(elts),
            [map |-> E.map, tys |-> Append(R.tys, E.ty), ok |-> R.ok /\ E.ok])

classifyConstantWithOpaquePtr(I, B, C, Map) ==
  LET Ty == TypeIn(I, C)
      Elts == classifyElements(I, B, C.elts,
                               [map |-> Map, tys |-> <<>>, ok |-> TRUE])
      sameElts == \A n \in 1..Len(Elts.tys) : Elts.tys[n] = Elts.tys[1]
      TargetTy == IF C.k = "cs" THEN StructType(Elts.tys)
                  ELSE ArrayType(Elts.tys[Len(Elts.tys)], Ty.n)
  IN CASE C.k = "null" ->
            [map |-> Map, ok |-> TRUE,
             ty |-> TypedPointerType(Int8Ty, getPointerAddressSpace(I, C))]
       [] C.k = "c" -> [map |-> Map, ty |-> Ty, ok |-> TRUE]
       [] C.k \notin {"null", "c"} /\ C \in DOMAIN Map ->
            [map |-> Map, ty |-> Map[C], ok |-> TRUE]
       [] C.k = "fn" /\ C \notin DOMAIN Map -> classifyFunctionType(I, B, C.i, Map)
       [] C.k \in {"cs", "ca"} /\ C \notin DOMAIN Map ->
            IF C.k = "ca" /\ ~sameElts
            THEN [map |-> Elts.map, ty |-> Ty, ok |-> FALSE]
            ELSE IF TargetTy = Ty
            THEN [map |-> Elts.map, ty |-> Ty, ok |-> Elts.ok]
            ELSE [map |-> Put(Elts.map, C, TargetTy), ty |-> TargetTy,
                  ok |-> Elts.ok]
       [] OTHER -> [map |-> Map, ty |-> Ty, ok |-> FALSE]

classifyGlobalCtorPointerType(I, B, g, Map) ==
  LET R == classifyConstantWithOpaquePtr(I, B, GlobalTable[g].init, Map)
  IN [map |-> Put(R.map, GV(g), TypedPointerType(R.ty, GlobalTable[g].as)),
      ok |-> R.ok]

\* The calls PointerTypeAnalysis::run makes on a module, in order.
ArgValues(f) == [n \in 1..Len(FunctionTable[f].params) |-> Arg(f, n)]
InstructionsOf(B, f) ==
  Concat([b \in 1..Len(B) |-> IF B[b].fn = f THEN B[b].body ELSE <<>>])
Call(fn, v) == [call |-> fn, v |-> v]

PointerTypeAnalysisRun(B, gs, fs) ==
  Concat([n \in 1..Len(gs) |->
            <<Call("classifyInstructionsForwards", GV(gs[n]))>>
            \o (IF GlobalTable[gs[n]].name = "llvm.global_ctors"
                THEN <<Call("classifyGlobalCtorPointerType", GV(gs[n]))>>
                ELSE <<>>)])
  \o Concat([n \in 1..Len(fs) |->
       LET F == fs[n]
           Is == InstructionsOf(B, F)
       IN [a \in 1..Len(ArgValues(F)) |->
             Call("classifyInstructionsForwards", ArgValues(F)[a])]
          \o [x \in 1..Len(Is) |->
                Call("classifyInstructionsForwards", Inst(Is[x]))]
          \o [x \in 1..Len(Is) |->
                Call("classifyInstructionsBackwards", Inst(Is[x]))]
          \o <<Call("classifyFunctionType", Fn(F))>>])


(***************************************************************************)
(* The modules PointerTypeAnalysis is run on: @k, @d, and optionally a     *)
(* constructor table with @c.  The body of @k is two seeds (two            *)
(* getelementptr on %x or two alloca), then pass-through instructions      *)
(* (phi, select, addrspacecast), then binding sites (load, store,          *)
(* getelementptr):                                                         *)
(*   B1: <body before the first phi>; br B2, B3                            *)
(*   B2: switch to B3 and the return blocks after it                       *)
(*   B3: <phis and the body after them>; ret r1 (or unreachable)           *)
(*   B4...: ret r2 ...                                                     *)
(* or, when the phi is a loop header,                                      *)
(*   B1: <body before the phi>; br B2                                      *)
(*   B2: <phi and the body after it>; br B2, B3                            *)
(*   B3: ret r1                                                            *)
(***************************************************************************)
MaxMerge == 2     \* pass-through instructions in the body of @k
MaxSites == 1     \* binding sites after them
MaxRets == 2      \* return sites of @k

UnreachableInst == MkInst("unreachable", VoidTy, <<>>, NoEl, NoEl, <<>>, "orig")

SeedShapes(kind, T) ==
  IF kind = "getelementptr"
  THEN GetElementPtrInst(Ptr(1), Scalar("struct"), T, Arg(4, 1))
  ELSE AllocaInst(T, 0)

Seeds ==
  {<<SeedShapes(kind, Scalar("i32")), SeedShapes(kind, T)>> :
     kind \in {"getelementptr", "alloca"}, T \in {Scalar("i32"), Scalar("f32")}}

PointersOf(body) ==
  {Arg(4, 1)} \cup {Inst(j) : j \in {x \in 1..Len(body) : isPointerTy(body[x].ty)}}

\* The n most recently defined pointer-typed instructions.
Recent(body, n) ==
  {p \in PointersOf(body) :
     /\ p.k = "inst"
     /\ Cardinality({r \in PointersOf(body) : r.k = "inst" /\ r.i > p.i}) < n}

\* A pass-through instruction merges the most recent pointer with an
\* earlier one of its type, or casts the most recent pointer.
MergeShapes(body) ==
  LET P == PointersOf(body)
      phiOK == firstPhi(body) > Len(body) \/ body[Len(body)].op = "phi"
      PB == {p \in P : p.k = "inst" => p.i < firstPhi(body)}
      Pairs(S) == {x \in S \X (S \cap Recent(body, 1)) :
                     x[1] # x[2] /\ TypeIn(body, x[1]) = TypeIn(body, x[2])}
  IN (IF phiOK
      THEN {PHINode(TypeIn(body, pr[1]), pr, <<1, 2>>) : pr \in Pairs(PB)}
      ELSE {})
     \cup {SelectInst(TypeIn(body, pr[1]), pr[1], pr[2]) : pr \in Pairs(P)}
     \cup {AddrSpaceCastInst(1 - TypeIn(body, p).as, p) : p \in Recent(body, 1)}

\* The first binding site uses the most recent pointer, or loads from the
\* one before it; a later one loads or stores a scalar.
SiteShapes(body) ==
  IF Len(body) > 2 /\ body[Len(body)].op \in {"load", "store", "getelementptr"}
  THEN {StoreInst(K("i64"), p) : p \in Recent(body, 1)}
       \cup {LoadInst(Scalar("half"), p) : p \in Recent(body, 2)}
  ELSE UNION {{LoadInst(Scalar("half"), p), LoadInst(Ptr(0), p),
               StoreInst(K("i64"), p), StoreInst(Arg(4, 1), p),
               GetElementPtrInst(TypeIn(body, p), Scalar("i16"), Int8Ty, p),
               GetElementPtrInst(TypeIn(body, p), Ptr(0), Int8Ty, p)} :
                p \in Recent(body, 1)}
       \cup {LoadInst(Scalar("half"), p) : p \in Recent(body, 2)}

RECURSIVE Extend(_, _, _)
Extend(bodies, n, merge) ==
  IF n = 0 THEN bodies
  ELSE bodies \cup
       Extend(UNION {{Append(b, s) :
                        s \in IF merge THEN MergeShapes(b) ELSE SiteShapes(b)} :
                       b \in bodies},
              n - 1, merge)

RetValues(body) ==
  {Null(1)} \cup {p \in PointersOf(body) : TypeIn(body, p) = Ptr(1)}

RECURSIVE RetsOfLen(_, _)
RetsOfLen(body, n) ==
  IF n = 0 THEN {<<>>}
  ELSE UNION {{Append(rs, r) : r \in RetValues(body)} :
                rs \in RetsOfLen(body, n - 1)}

\* Modules exercising the dataflow (no constructor table, one return site)
\* and modules exercising the signatures (the seeds only, any return sites,
\* with or without a constructor table).
DataflowModules(merges, sites) ==
  {[body |-> b, rets |-> <<Arg(4, 1)>>, ctors |-> 0, loop |-> FALSE] :
     b \in Extend(Extend(Seeds, merges, TRUE), sites, FALSE)}

\* The bodies in which the phi is a loop header: its second incoming value
\* is a pointer computed from it, later in the phi's own block.
LoopBodies(b) ==
  {[b EXCEPT ![q].ops[2] = Inst(c)] :
     <<q, c>> \in {x \in (1..Len(b)) \X (1..Len(b)) :
                     /\ b[x[1]].op = "phi"
                     /\ x[1] < x[2]
                     /\ b[x[2]].ty = b[x[1]].ty
                     /\ \E k \in 1..Len(b[x[2]].ops) :
                          b[x[2]].ops[k] = Inst(x[1])}}

LoopModules(merges, sites) ==
  {[body |-> b, rets |-> <<Arg(4, 1)>>, ctors |-> 0, loop |-> TRUE] :
     b \in UNION {LoopBodies(m.body) : m \in DataflowModules(merges, sites)}}

SignatureModules(rets) ==
  UNION {{[body |-> b, rets |-> rs, ctors |-> c, loop |-> FALSE] :
            rs \in UNION {RetsOfLen(b, n) : n \in 0..rets},
            c \in {0, 3, 4}} :
           b \in Seeds}

AnalysisInsts(m) ==
  m.body \o <<BranchInst, BranchInst>>
  \o (IF m.rets = <<>> THEN <<UnreachableInst>>
      ELSE [n \in 1..Len(m.rets) |-> ReturnInst(<<m.rets[n]>>)])

AnalysisBlocks(m) ==
  LET n == Len(m.body)
      fp == firstPhi(m.body)
  IN IF m.loop
     THEN <<[fn |-> 4, body |-> [j \in 1..(fp - 1) |-> j] \o <<n + 1>>],
            [fn |-> 4,
             body |-> [j \in 1..(n + 1 - fp) |-> fp + j - 1] \o <<n + 2>>],
            [fn |-> 4, body |-> <<n + 3>>]>>
     ELSE <<[fn |-> 4, body |-> [j \in 1..(fp - 1) |-> j] \o <<n + 1>>],
            [fn |-> 4, body |-> <<n + 2>>],
            [fn |-> 4,
             body |-> [j \in 1..(n + 1 - fp) |-> fp + j - 1] \o <<n + 3>>]>>
          \o [r \in 1..(Len(m.rets) - 1) |-> [fn |-> 4, body |-> <<n + 3 + r>>]]

InitPTA ==
  \E m \in DataflowModules(MaxMerge, MaxSites)
            \cup LoopModules(MaxMerge, MaxSites)
            \cup SignatureModules(MaxRets) :
    /\ insts = AnalysisInsts(m)
    /\ blocks = AnalysisBlocks(m)
    /\ globals = IF m.ctors = 0 THEN <<>> ELSE <<m.ctors>>
    /\ functions = IF m.ctors = 0 THEN <<4, 5>> ELSE <<4, 5, 6>>
    /\ pc = "pta"
    /\ worklist = PointerTypeAnalysisRun(AnalysisBlocks(m),
                    IF m.ctors = 0 THEN <<>> ELSE <<m.ctors>>,
                    IF m.ctors = 0 THEN <<4, 5>> ELSE <<4, 5, 6>>)
    /\ found = FALSE
    /\ Changed = FALSE
    /\ results = <<>>
    /\ PointerMap = EmptyMap
    /\ failed = FALSE

(***************************************************************************)
(* PointerTypeAnalysis::run, one call per step.                            *)
(***************************************************************************)
Record(R) ==
  /\ PointerMap' = R.map
  /\ failed' = ~R.ok
  /\ worklist' = Tail(worklist)
  /\ UNCHANGED <<insts, blocks, globals, functions, pc, found, Changed, results>>

Calling(fn) ==
  pc = "pta" /\ ~failed /\ worklist # <<>> /\ Head(worklist).call = fn

ForwardsStep ==
  /\ Calling("classifyInstructionsForwards")
  /\ Record(classifyInstructionsForwards(insts, blocks, Head(worklist).v,
                                         PointerMap))

GlobalCtorStep ==
  /\ Calling("classifyGlobalCtorPointerType")
  /\ Record(classifyGlobalCtorPointerType(insts, blocks, Head(worklist).v.i,
                                          PointerMap))

BackwardsStep ==
  /\ Calling("classifyInstructionsBackwards")
  /\ Record([map |-> classifyInstructionsBackwards(insts, blocks,
                       Head(worklist).v.i, PointerMap),
             ok |-> TRUE])

FunctionTypeStep ==
  /\ Calling("classifyFunctionType")
  /\ Record(classifyFunctionType(insts, blocks, Head(worklist).v.i, PointerMap))

RunReturn ==
  /\ pc = "pta" /\ ~failed /\ worklist = <<>>
  /\ pc' = "pta_done"
  /\ UNCHANGED <<insts, blocks, globals, functions, worklist, found, Changed,
                 results, PointerMap, failed>>

NextPTA ==
  \/ ForwardsStep
  \/ GlobalCtorStep
  \/ BackwardsStep
  \/ FunctionTypeStep
  \/ RunReturn

SpecPTA == InitPTA /\ [][NextPTA]_vars


(***************************************************************************)
(* Claims about PointerTypeAnalysis (specification SpecPTA).               *)
(***************************************************************************)
Returned == pc = "pta_done" /\ ~failed
Before(i, j) == IndexOf(Layout(blocks), i) < IndexOf(Layout(blocks), j)
IsPassThrough(i) == insts[i].op \in {"select", "phi", "addrspacecast"}
IsBindingSite(i) ==
  \/ insts[i].op \in {"load", "getelementptr"}
  \/ insts[i].op = "store" /\ ~isPointerTy(TypeIn(insts, getOperand(insts, i, 0)))

\* C7: when run has returned, the descriptor recorded for a function with an
\* !arg_eltypes pair (i, sample) has at parameter i a typed pointer to the
\* sample's type.
C7_AnnotationPriority ==
  Returned =>
    \A n \in 1..Len(functions) :
      LET f == functions[n]
          MD == FunctionTable[f].md
      IN \A j \in 1..Len(MD) :
           /\ Fn(f) \in DOMAIN PointerMap
           /\ PointerMap[Fn(f)].el.params[MD[j][1] + 1]
                = TypedPointerType(MD[j][2],
                                   FunctionTable[f].params[MD[j][1] + 1].as)

\* The return type the return sites of f stand for under the current map:
\* the descriptor they share, the generic i8 descriptor when they do not
\* share one or there is none.
SiteDescriptors(f) ==
  LET rv == ReturnValues(insts, blocks, f)
  IN {classifyPointer(insts, rv[n], PointerMap) : n \in 1..Len(rv)}

SharedReturnType(f) ==
  IF Cardinality(SiteDescriptors(f)) = 1
  THEN CHOOSE d \in SiteDescriptors(f) : TRUE
  ELSE TypedPointerType(Int8Ty, FunctionTable[f].ret.as)

\* C8 (as stated): every call of classifyFunctionType on a function with an
\* opaque-pointer return type yields the descriptor shared by its return
\* sites, or the generic one.
C8_ReturnTypeShared ==
  [][FunctionTypeStep =>
       LET f == Head(worklist).v.i
       IN isPointerTy(FunctionTable[f].ret) =>
            PointerMap'[Fn(f)].el.ret = SharedReturnType(f)]_vars

\* C8 (amended): a call of classifyFunctionType on a function that has no
\* map entry yet records the descriptor shared by its return sites, or the
\* generic one; a call on a function that has an entry leaves it as it is.
C8_ReturnTypeOnFirstClassification ==
  [][FunctionTypeStep =>
       LET f == Head(worklist).v.i
       IN isPointerTy(FunctionTable[f].ret) =>
            IF Fn(f) \in DOMAIN PointerMap
            THEN PointerMap'[Fn(f)] = PointerMap[Fn(f)]
            ELSE PointerMap'[Fn(f)].el.ret = SharedReturnType(f)]_vars

\* @k has been classified from two return sites with different descriptors.
C8_Witness ==
  /\ Returned /\ globals = <<>>
  /\ Len(ReturnValues(insts, blocks, 4)) = 2
  /\ Cardinality(SiteDescriptors(4)) = 2
  /\ \E d \in SiteDescriptors(4) : d.el # Int8Ty
  /\ PointerMap[Fn(4)].el.ret = TypedPointerType(Int8Ty, 1)

\* Phi q merges two getelementptr results of different element types and is
\* the pointer operand of load L.
MergedAndLoaded(q, L) ==
  /\ insts[q].op = "phi" /\ insts[L].op = "load"
  /\ getPointerOperand(insts, L) = Inst(q)
  /\ \E a, b \in Ids :
       /\ insts[q].ops = <<Inst(a), Inst(b)>>
       /\ insts[a].op = "getelementptr" /\ insts[b].op = "getelementptr"
       /\ insts[a].rel # insts[b].rel

LoadedDescriptor(q, L) ==
  /\ Inst(q) \in DOMAIN PointerMap
  /\ PointerMap[Inst(q)] = TypedPointerType(insts[L].ty, insts[q].ty.as)

FirstToBind(q, L) ==
  /\ \A u \in Ids : IsPassThrough(u) => ~Contains(insts[u].ops, Inst(q))
  /\ \A j \in Ids :
       IsBindingSite(j) /\ Before(j, L) => getPointerOperand(insts, j) # Inst(q)

C10_FirstWriteWins ==
  [][\A v \in DOMAIN PointerMap :
       v \in DOMAIN PointerMap' /\ PointerMap'[v] = PointerMap[v]]_vars

\* C13: when run has returned, the descriptor it has recorded for a function
\* is the one buildPointerMap records for it, a pointer to
\* getTypedFunctionType's signature.
C13_SameSignature ==
  Returned =>
    \A n \in 1..Len(functions) :
      /\ Fn(functions[n]) \in DOMAIN PointerMap
      /\ PointerMap[Fn(functions[n])]
           = TypedPointerType(getTypedFunctionType(functions[n]),
                              FunctionTable[functions[n]].as)

\* C14: no call of the run fails to return.
C14_EveryCallReturns == ~failed

\* C15: a call of classifyInstructionsForwards that returns and seeds its
\* value V leaves every phi, select and addrspacecast using V in the map,
\* with the pointee type recorded for V.
C15_ForwardRecordsUsers ==
  [][Calling("classifyInstructionsForwards") /\ ~failed' =>
       LET V == Head(worklist).v
       IN V \notin DOMAIN PointerMap /\ V \in DOMAIN PointerMap' =>
            \A u \in Ids :
              IsPassThrough(u) /\ Contains(insts[u].ops, V) =>
                /\ Inst(u) \in DOMAIN PointerMap'
                /\ PointerMap'[Inst(u)].el = PointerMap'[V].el]_vars

\* The element type a load, store or getelementptr fixes for its pointer
\* operand.
SiteElementType(i) ==
  CASE insts[i].op = "load" -> insts[i].ty
    [] insts[i].op = "store" -> TypeIn(insts, getOperand(insts, i, 0))
    [] insts[i].op = "getelementptr" -> insts[i].el
    [] OTHER -> NoEl

\* The values from which a value of `frontier` is reachable through phi,
\* select and addrspacecast instructions (the values of `frontier` included).
RECURSIVE FlowsInto(_, _)
FlowsInto(frontier, seen) ==
  IF frontier \subseteq seen THEN seen
  ELSE LET v == CHOOSE x \in frontier : x \notin seen
           ops == IF v.k = "inst" /\ IsPassThrough(v.i)
                  THEN {insts[v.i].ops[n] : n \in 1..Len(insts[v.i].ops)}
                  ELSE {}
       IN FlowsInto((frontier \cup {o \in ops : isPointerTy(TypeIn(insts, o))})
                      \ {v},
                    seen \cup {v})

\* C16: a call of classifyInstructionsBackwards for a load, store or
\* getelementptr with a non-pointer element type T whose pointer operand P
\* is not in the map adds exactly the unmapped values from which P is
\* reachable through phi, select and addrspacecast instructions, each with
\* pointee T and its own address space.
C16_BackwardRecordsSources ==
  [][Calling("classifyInstructionsBackwards") =>
       LET i == Head(worklist).v.i
           P == getPointerOperand(insts, i)
       IN /\ insts[i].op \in {"load", "store", "getelementptr"}
          /\ ~isPointerTy(SiteElementType(i))
          /\ P \notin DOMAIN PointerMap
          => /\ DOMAIN PointerMap' \ DOMAIN PointerMap
                  = FlowsInto({P}, {}) \ DOMAIN PointerMap
             /\ \A v \in DOMAIN PointerMap' \ DOMAIN PointerMap :
                  PointerMap'[v]
                    = TypedPointerType(SiteElementType(i),
                                       getPointerAddressSpace(insts, v))]_vars

\* C17: a call of classifyInstructionsBackwards for a load, store or
\* getelementptr whose element type is an opaque pointer leaves the map
\* unchanged.
C17_OpaqueElementRecordsNothing ==
  [][Calling("classifyInstructionsBackwards") =>
       LET i == Head(worklist).v.i
       IN /\ insts[i].op \in {"load", "store", "getelementptr"}
          /\ isPointerTy(SiteElementType(i))
          => PointerMap' = PointerMap]_vars

\* The phi operand slots (phi, slot number from 1) that reference a marker
\* prepended for them.
PhiMarkerSlots ==
  {x \in Ids \X (1..2) :
     /\ insts[x[1]].op = "phi"
     /\ x[2] <= Len(insts[x[1]].ops)
     /\ insts[x[1]].ops[x[2]].k = "inst"
     /\ insts[insts[x[1]].ops[x[2]].i].org = "pre"}

\* C18: a marker prepended for an operand slot of a phi lies in the incoming
\* block of that slot, not in front of the phi in the phi's block, and was
\* put directly before that block's terminator: whatever separates it from
\* the terminator is a marker created after it.
C18_PhiMarkerInIncomingBlock ==
  \A x \in PhiMarkerSlots :
    LET q == x[1]
        m == insts[q].ops[x[2]].i
        b == insts[q].inb[x[2]]
        body == blocks[b].body
    IN /\ getParent(blocks, m) = b
       /\ ~(getParent(blocks, q) = b /\ PosOf(m) < PosOf(q))
       /\ PosOf(m) < Len(body)
       /\ \A n \in (PosOf(m) + 1)..(Len(body) - 1) :
            IsMarker(body[n]) /\ body[n] > m

C18_Witness ==
  /\ Inserted
  /\ \E x \in PhiMarkerSlots :
       /\ insts[insts[x[1]].ops[x[2]].i].ops[1].k = "gv"
       /\ getTerminator(blocks, insts[x[1]].inb[x[2]])
            = blocks[insts[x[1]].inb[x[2]]].body[PosOf(insts[x[1]].ops[x[2]].i) + 1]

\* C19: when run has returned, in every block the phis precede every other
\* instruction.
C19_PhisFirst ==
  Inserted =>
    \A b \in 1..Len(blocks) :
      \A n \in 2..Len(blocks[b].body) :
        insts[blocks[b].body[n]].op = "phi" =>
          insts[blocks[b].body[n - 1]].op = "phi"

(***************************************************************************)
(* ModuleRewriter50::convertPointers: PointerTypeAnalysis::run, then one   *)
(* instruction of the module per step.  The context uses opaque pointers.  *)
(***************************************************************************)
NoCast == 0

erase(Map, k) == [x \in DOMAIN Map \ {k} |-> Map[x]]

eraseFromParent(B, i) ==
  [b \in DOMAIN B |->
     [B[b] EXCEPT !.body = SelectSeq(@, LAMBDA x : x # i)]]

maybeGenerateBitcast(I, B, PointerTypes, i, Operand, ElTy) ==
  IF Operand \in DOMAIN PointerTypes /\ PointerTypes[Operand].el = ElTy
  THEN [insts |-> I, blocks |-> B, cast |-> NoCast]
  ELSE LET Cast == Len(I) + 1
       IN [insts |-> Append(I, MkInst("bitcast",
                                      Ptr(getPointerAddressSpace(I, Operand)),
                                      <<Operand>>, NoEl, NoEl, <<>>, "cast")),
           blocks |-> insertBefore(B, Cast, i),
           cast |-> Cast]

\* The body of convertPointers' loop for instruction i.
convertPointers(I, B, PointerTypes, i) ==
  LET same == [insts |-> I, blocks |-> B, map |-> PointerTypes]
      ElTy == CASE I[i].op = "load" -> I[i].ty
                [] I[i].op = "store" -> TypeIn(I, getOperand(I, i, 0))
                [] I[i].op = "getelementptr" -> I[i].rel
                [] OTHER -> NoEl
      r == maybeGenerateBitcast(I, B, PointerTypes, i,
                                getPointerOperand(I, i), ElTy)
      New == Len(r.insts) + 1
      replaced(ins) ==
        [insts |-> replaceAllUsesWith(Append(r.insts, ins), Inst(i), Inst(New)),
         blocks |-> eraseFromParent(insertBefore(r.blocks, New, i), i),
         map |-> erase(PointerTypes, Inst(i))]
  IN CASE I[i].op \notin {"load", "store", "getelementptr"} -> same
       [] r.cast = NoCast -> same
       [] I[i].op = "load" ->
            replaced([LoadInst(I[i].ty, Inst(r.cast)) EXCEPT !.org = "new"])
       [] I[i].op = "store" ->
            replaced([StoreInst(getOperand(I, i, 0), Inst(r.cast))
                        EXCEPT !.org = "new"])
       [] OTHER ->
            [insts |-> setOperand(r.insts, i, 0, Inst(r.cast)),
             blocks |-> r.blocks,
             map |-> PointerTypes]

ConvertBegin ==
  /\ pc = "pta_done" /\ ~failed
  /\ pc' = "convert"
  /\ worklist' = [n \in 1..Len(Layout(blocks)) |->
                    Call("convertPointers", Inst(Layout(blocks)[n]))]
  /\ UNCHANGED <<insts, blocks, globals, functions, found, Changed, results,
                 PointerMap, failed>>

ConvertStep ==
  /\ pc = "convert" /\ worklist # <<>>
  /\ LET r == convertPointers(insts, blocks, PointerMap, Head(worklist).v.i)
     IN /\ insts' = r.insts
        /\ blocks' = r.blocks
        /\ PointerMap' = r.map
  /\ worklist' = Tail(worklist)
  /\ UNCHANGED <<globals, functions, pc, found, Changed, results, failed>>

ConvertReturn ==
  /\ pc = "convert" /\ worklist = <<>>
  /\ pc' = "converted"
  /\ results' = Append(results, TRUE)
  /\ UNCHANGED <<insts, blocks, globals, functions, worklist, found, Changed,
                 PointerMap, failed>>

NextConvert ==
  \/ ForwardsStep
  \/ GlobalCtorStep
  \/ BackwardsStep
  \/ FunctionTypeStep
  \/ RunReturn
  \/ ConvertBegin
  \/ ConvertStep
  \/ ConvertReturn

SpecConvert == InitPTA /\ [][NextConvert]_vars

(***************************************************************************)
(* Claims about ModuleRewriter50 (specification SpecConvert).              *)
(***************************************************************************)
\* The analysis map holds for the pointer operand of load, store or
\* getelementptr i a descriptor whose pointee is the element type i fixes.
Agrees(i) ==
  /\ getPointerOperand(insts, i) \in DOMAIN PointerMap
  /\ PointerMap[getPointerOperand(insts, i)].el = SiteElementType(i)

\* C20: the step of convertPointers for a load, store or getelementptr
\* leaves the module as it is exactly when the map agrees with the site;
\* the step for any other instruction leaves the module as it is.
C20_ChangedOnlyOnDisagreement ==
  [][pc = "convert" /\ worklist # <<>> =>
       LET i == Head(worklist).v.i
           untouched == insts' = insts /\ blocks' = blocks
       IN IF insts[i].op \in {"load", "store", "getelementptr"}
          THEN untouched <=> Agrees(i)
          ELSE untouched]_vars

(***************************************************************************)
(* Claims about call arguments and about the run as a whole                *)
(* (specification Spec).                                                   *)
(***************************************************************************)
\* The calls whose callee is function f.
DirectCalls(f) ==
  {i \in Ids : /\ insts[i].op = "call" /\ insts[i].org = "orig"
               /\ getCalledOperand(insts[i]) = Fn(f)}

\* The parameter numbers (from 0) that f's !arg_eltypes names.
Annotated(f) ==
  {FunctionTable[f].md[n][1] : n \in 1..Len(FunctionTable[f].md)}

\* C21: once buildPointerMap has run after one run of marker insertion, no
\* assertion has fired and, for every call whose callee F carries
\* !arg_eltypes, each annotated argument is a marker placed immediately
\* before the call and mapped to (sample type, address space of the
\* parameter), F is mapped to a pointer to its typed function type, and the
\* other arguments are not markers.
C21_AnnotatedCallArguments ==
  pc = "mapped" =>
    /\ ~failed
    /\ \A n \in 1..Len(functions) :
         LET f == functions[n]
             MD == FunctionTable[f].md
         IN \A i \in IF MD = <<>> THEN {} ELSE DirectCalls(f) :
              /\ \A j \in 1..Len(MD) :
                   LET m == getOperand(insts, i, MD[j][1])
                   IN /\ m.k = "inst" /\ insts[m.i].org = "pre"
                      /\ ImmediatelyBefore(m.i, i)
                      /\ m \in DOMAIN PointerMap
                      /\ PointerMap[m]
                           = TypedPointerType(MD[j][2],
                               FunctionTable[f].params[MD[j][1] + 1].as)
              /\ Fn(f) \in DOMAIN PointerMap
              /\ PointerMap[Fn(f)]
                   = TypedPointerType(getTypedFunctionType(f),
                                      FunctionTable[f].as)
              /\ \A a \in 0..(arg_size(insts[i]) - 1) :
                   a \notin Annotated(f) =>
                     ~(getOperand(insts, i, a).k = "inst"
                       /\ IsMarker(getOperand(insts, i, a).i))

\* C23: an argument of a call is a marker prepended for an operand other
\* than a global variable only at an index the call's callee has annotated,
\* such a call's other arguments get no map entry, and marker insertion for
\* call arguments fires no assertion.
C23_OnlyCallsToAnnotatedCallee ==
  /\ pc \in {"funcops", "done"} => ~failed
  /\ \A i \in Ids : insts[i].op = "call" /\ insts[i].org = "orig" =>
       \A a \in 0..(arg_size(insts[i]) - 1) :
         LET v == getOperand(insts, i, a)
         IN a \notin Annotated(getCalledOperand(insts[i]).i) /\ v.k = "inst" =>
              /\ ~(insts[v.i].org = "pre" /\ insts[v.i].ops[1].k # "gv")
              /\ pc = "mapped" => v \notin DOMAIN PointerMap

\* The first value that is not a marker, following operands back from v in
\* the instructions I.
RECURSIVE ProducerIn(_, _)
ProducerIn(I, v) ==
  IF v.k = "inst" /\ I[v.i].org \in {"pre", "app"} /\ I[v.i].ops[1] # v
  THEN ProducerIn(I, I[v.i].ops[1])
  ELSE v

\* The same, where a marker that appendBitcast has created and not yet
\* given its operand (position p = "instops_undo", instruction Head(wl))
\* stands for the instruction it is appended to.
ProducerAt(I, p, wl, v) ==
  IF p = "instops_undo" /\ ProducerIn(I, v) = Inst(Len(I))
  THEN Inst(Head(wl))
  ELSE ProducerIn(I, v)

\* The instructions of a block that were there before the run, in order.
PreExisting(I, body) == SelectSeq(body, LAMBDA i : I[i].org = "orig")

\* C22: every step of run and buildPointerMap keeps, in every block, the
\* pre-existing instructions and their order, and keeps for every operand
\* slot of a pre-existing instruction the producer found behind the slot's
\* markers, or replaces a constant expression by the instruction demotion
\* has made of it; outside appendBitcast the operand of an appended marker
\* is the getelementptr or alloca it follows.
C22_PreservedUpToMarkers ==
  [][/\ \A b \in 1..Len(blocks) :
          PreExisting(insts', blocks'[b].body) = PreExisting(insts, blocks[b].body)
     /\ \A i \in Ids : insts[i].org = "orig" =>
          /\ Len(insts'[i].ops) = Len(insts[i].ops)
          /\ \A n \in 1..Len(insts[i].ops) :
               LET v == ProducerAt(insts, pc, worklist, insts[i].ops[n])
                   w == ProducerAt(insts', pc', worklist', insts'[i].ops[n])
               IN \/ w = v
                  \/ /\ v.k = "ce" /\ w.k = "inst"
                     /\ insts'[w.i] = getAsInstruction(v)
     /\ pc' # "instops_undo" =>
          \A m \in 1..Len(insts') : insts'[m].org = "app" =>
            /\ insts'[m].ops[1].k = "inst"
            /\ insts'[m].ops[1] # Inst(m)
            /\ insts'[insts'[m].ops[1].i].op \in {"getelementptr", "alloca"}
            /\ insts'[m].ty = insts'[insts'[m].ops[1].i].ty]_vars

\* The run has returned; a pre-existing instruction reaches a
\* getelementptr or an alloca through that instruction's appended marker,
\* and another reaches a demoted constant expression.
C22_Witness ==
  /\ pc = "done" /\ ~failed
  /\ \E i \in Ids, n \in 1..3 :
       /\ insts[i].org = "orig" /\ n <= Len(insts[i].ops)
       /\ insts[i].ops[n].k = "inst"
       /\ ChainLen(insts[i].ops[n]) >= 1
       /\ Producer(insts[i].ops[n]).k = "inst"
       /\ insts[Producer(insts[i].ops[n]).i].op \in {"getelementptr", "alloca"}
       /\ insts[Producer(insts[i].ops[n]).i].org = "orig"
  /\ \E i \in Ids, n \in 1..3 :
       /\ insts[i].org = "orig" /\ n <= Len(insts[i].ops)
       /\ Producer(insts[i].ops[n]).k = "inst"
       /\ insts[Producer(insts[i].ops[n]).i].org = "dem"

====
